---- MODULE Spec2Model ----
(***************************************************************************)
(* A model of eval_lda.py: the coherence orchestrator eval_coherence with  *)
(* its vocabulary reconciliation, the evaluation pipeline main, and the    *)
(* embedding similarity scorers pairwise_similarity and mean_similarity.   *)
(***************************************************************************)
EXTENDS Integers, Sequences, FiniteSets, TLC

VARIABLES
    topics,      \* the topic collection of the run (tl.topics), a sequence of topics
    dictionary,  \* the gensim Dictionary shared by the eval_coherence invocations
    reconciled,  \* the OOV documents reconciliation has added to the dictionary so far
    last,        \* the last eval_coherence invocation: its arguments and its outcome
    simTopic,    \* the topic given to the similarity scorers
    simKvs,      \* the embedding sources given to them, a sequence of <<name, source>>
    msRes,       \* the outcome of mean_similarity(topic, kvs)
    psRes,       \* the outcome of pairwise_similarity(topic, kvs, ignore_oov=True)
    ps2Res,      \* the outcome of pairwise_similarity(topic, kvs, ignore_oov=False)
    pc,          \* where main stands
    args,        \* main's parsed arguments
    tlDictionary,\* tl.dictionary, the dictionary of the topics' own corpus
    emb,         \* the loaded embedding sources, a sequence of <<name, source>>
    dfs,         \* main's list of the tables eval_coherence returned
    dfSims,      \* main's df_sims
    files,       \* the paths at which a file exists
    clock,       \* the integer part of time()
    output       \* the last write of a result table: its path and what was there

evalVars == <<topics, dictionary, reconciled, last>>
simVars == <<simTopic, simKvs, msRes, psRes, ps2Res>>
mainVars == <<pc, args, tlDictionary, emb, dfs, dfSims, files, clock, output>>

(***************************************************************************)
(* Bounds of the model.                                                    *)
(***************************************************************************)
MaxTopics == 2
MaxClock == 2

(***************************************************************************)
(* Python values.                                                          *)
(***************************************************************************)
None == [some |-> FALSE]
Some(v) == [some |-> TRUE, val |-> v]

\* bool(x) of an optional list: None and the empty list are falsy.
TruthyList(o) == o.some /\ Len(o.val) > 0

\* bool(x) of an optional object without __len__/__bool__ (a KeyedVectors).
TruthyObj(o) == o.some

Range(s) == {s[i] : i \in 1..Len(s)}

\* The terms of the model, and their order under Python's string comparison.
TermOrder == <<"a", "b", "xyz">>
Terms == Range(TermOrder)

\* The NaN that pandas puts in the cells a boolean mask leaves out.
NaN == "<NaN>"
isstr(x) == x # NaN

\* sorted() of a set of terms.
Sorted(S) == SelectSeq(TermOrder, LAMBDA t : t \in S)

(***************************************************************************)
(* gensim's Dictionary: token2id, and the lazily built reverse id2token.   *)
(***************************************************************************)
EmptyMap == [t \in {} |-> 0]

MapPut(f, k, v) == [x \in (DOMAIN f) \cup {k} |-> IF x = k THEN v ELSE f[x]]

\* revdict(token2id)
RevDict(token2id) == [i \in {token2id[t] : t \in DOMAIN token2id} |->
                        CHOOSE t \in DOMAIN token2id : token2id[t] = i]

\* Dictionary.doc2bow(document, allow_update=True): every token of the document
\* that is missing gets the id len(token2id), in sorted order.
RECURSIVE AddTokens(_, _)
AddTokens(token2id, toks) ==
    IF toks = <<>> THEN token2id
    ELSE AddTokens(IF Head(toks) \in DOMAIN token2id
                     THEN token2id
                     ELSE MapPut(token2id, Head(toks), Cardinality(DOMAIN token2id)),
                   Tail(toks))

doc2bow(token2id, document) == AddTokens(token2id, Sorted(Range(document)))

\* Dictionary.add_documents(documents, prune_at=None)
RECURSIVE add_documents(_, _)
add_documents(d, documents) ==
    IF documents = <<>> THEN d
    ELSE add_documents([d EXCEPT !.token2id = doc2bow(d.token2id, Head(documents)),
                                 !.num_docs = d.num_docs + 1],
                       Tail(documents))

\* Dictionary.__getitem__: rebuilds id2token when its size differs from token2id's.
getitem(d) ==
    IF Cardinality(DOMAIN d.id2token) # Cardinality(DOMAIN d.token2id)
      THEN [d EXCEPT !.id2token = RevDict(d.token2id)]
      ELSE d

\* A dictionary as built from a sequence of distinct tokens.
DictOf(toks) == [token2id |-> AddTokens(EmptyMap, toks), id2token |-> EmptyMap,
                 num_docs |-> Len(toks)]

(***************************************************************************)
(* eval_coherence                                                          *)
(***************************************************************************)
\* The guard of eval_coherence: not (corpus or texts or keyed_vectors).
NoInput(corpus, texts, keyed_vectors) ==
    ~(TruthyList(corpus) \/ TruthyList(texts) \/ TruthyObj(keyed_vectors))

\* The metrics to run: the caller's list, or the defaults of the inputs that are
\* not None, added one family after the other.
ResolveMetrics(corpus, texts, keyed_vectors, metrics) ==
    IF metrics.some THEN metrics
    ELSE LET m1 == IF corpus.some THEN Some(<<"u_mass">>) ELSE None
             m2 == IF texts.some
                     THEN IF ~m1.some THEN Some(<<"c_v", "c_npmi", "c_uci">>)
                          ELSE Some(m1.val \o <<"c_v", "c_npmi", "c_uci">>)
                     ELSE m1
             m3 == IF keyed_vectors.some
                     THEN IF ~m2.some THEN Some(<<"c_w2v">>)
                          ELSE Some(m2.val \o <<"c_w2v">>)
                     ELSE m2
         IN  m3

\* A mutant: no mask, every cell of the table is taken for an OOV term.
Masked_none(tps, token2id) ==
    [k \in 1..Len(tps) |-> [i \in 1..Len(tps[k]) |-> tps[k][i]]]

\* topics[~in_dict]: the terms outside the dictionary, NaN in every other cell.
Masked(tps, token2id) ==
    [k \in 1..Len(tps) |->
        [i \in 1..Len(tps[k]) |->
            IF tps[k][i] \in DOMAIN token2id THEN NaN ELSE tps[k][i]]]

\* The OOV documents: the distinct string cells of the masked table, each wrapped in
\* a list of its own, sorted.
OovDocs(tps, token2id) ==
    LET m     == Masked(tps, token2id)
        cells == UNION {Range(m[k]) : k \in 1..Len(tps)}
        strs  == {x \in cells : isstr(x)}
        srt   == Sorted(strs)
    IN  [i \in 1..Len(srt) |-> <<srt[i]>>]

\* A mutant: the dictionary is rebuilt from the sorted vocabulary, which renumbers it.
Reconcile_rebuilt(d, oov) ==
    IF oov # <<>>
      THEN getitem(DictOf(Sorted(DOMAIN d.token2id \cup {oov[i][1] : i \in 1..Len(oov)})))
      ELSE d

\* if oov: dictionary.add_documents(oov, prune_at=None); _ = dictionary[0]
Reconcile(d, oov) ==
    IF oov # <<>> THEN getitem(add_documents(d, oov)) ELSE d

\* txt = texts + oov if texts else None
ScorerTexts(texts, oov) ==
    IF TruthyList(texts) THEN Some(texts.val \o oov) ELSE None

\* A mutant: the scorer is given the first topic alone.
CoherenceModel_one(tps, d, corpus, txt, metric, window_size, cores, keyed_vectors) ==
    [topics |-> <<tps[1]>>, dictionary |-> d.token2id, corpus |-> corpus, texts |-> txt,
     coherence |-> metric, topn |-> 10, window_size |-> window_size,
     processes |-> cores, keyed_vectors |-> keyed_vectors]

\* The arguments of one CoherenceModel(...) construction.
CoherenceModel(tps, d, corpus, txt, metric, window_size, cores, keyed_vectors) ==
    [topics |-> tps, dictionary |-> d.token2id, corpus |-> corpus, texts |-> txt,
     coherence |-> metric, topn |-> 10, window_size |-> window_size,
     processes |-> cores, keyed_vectors |-> keyed_vectors]

\* cm.get_coherence_per_topic(with_std=True, with_support=True): one
\* (score, stdev, support) triple per topic of the model, values of the scorer.
get_coherence_per_topic(cm) ==
    [k \in 1..Len(cm.topics) |->
        <<<<"score", cm.coherence, k>>, <<"stdev", cm.coherence, k>>,
          <<"support", cm.coherence, k>>>>]

\* scores[key] = value on an insertion-ordered dict, kept as a sequence of pairs.
DictSet(scores, key, value) ==
    IF \E i \in 1..Len(scores) : scores[i][1] = key
      THEN [i \in 1..Len(scores) |->
              IF scores[i][1] = key THEN <<key, value>> ELSE scores[i]]
      ELSE Append(scores, <<key, value>>)

\* A mutant: the suffix is dropped from the column name.
ColumnName_nosuffix(metric, suffix) == metric

\* The column name of a metric's scores.
ColumnName(metric, suffix) == metric \o suffix

\* One pass of the loop: the scores of the scorer cm are stored under the
\* metric's column name.
Scoring(st, metric, suffix, cm) ==
    [scores |-> DictSet(st.scores, ColumnName(metric, suffix),
                        get_coherence_per_topic(cm)),
     calls  |-> Append(st.calls, cm),
     log    |-> st.log \o <<<<"metric", metric>>, <<"done", metric>>>>]

\* The loop over the metrics: st holds the scores, the scorer invocations and the log.
RECURSIVE RunMetrics(_, _, _)
RunMetrics(st, ms, a) ==
    IF ms = <<>> THEN st
    ELSE RunMetrics(
            Scoring(st, Head(ms), a.suffix,
                    CoherenceModel(a.topics, a.dictionary, a.corpus,
                                   ScorerTexts(a.texts, a.oov), Head(ms),
                                   a.window_size, a.cores, a.keyed_vectors)),
            Tail(ms), a)

\* df = pd.DataFrame(scores); df.index = topics.index
\* A frame without columns has no rows, and setting an index of another length raises.
DataFrame(scores, tps) ==
    IF scores = <<>> /\ Len(tps) # 0
      THEN [kind |-> "error"]
      ELSE [kind    |-> "table",
            index   |-> [k \in 1..Len(tps) |-> k],
            columns |-> [i \in 1..Len(scores) |-> scores[i][1]],
            cells   |-> [i \in 1..Len(scores) |-> scores[i][2]]]

\* A mutant: the guard sits after the reconciliation.
ConfigError_late(tps, d, texts) ==
    [ret |-> [kind |-> "none"],
     dictionary |-> Reconcile(d, OovDocs(tps, d.token2id)), calls |-> <<>>,
     log |-> <<<<"provide corpus, texts and/or keyed_vectors">>>>,
     metrics |-> <<>>, oov |-> <<>>, caller_texts |-> texts]

\* logg('provide corpus, texts and/or keyed_vectors'); return
ConfigError(tps, d, texts) ==
    [ret |-> [kind |-> "none"], dictionary |-> d, calls |-> <<>>,
     log |-> <<<<"provide corpus, texts and/or keyed_vectors">>>>,
     metrics |-> <<>>, oov |-> <<>>, caller_texts |-> texts]

\* return df, after the loop ended in st.
Returned(st, tps, d2, ms, oov, texts) ==
    [ret |-> DataFrame(st.scores, tps), dictionary |-> d2,
     calls |-> st.calls, log |-> st.log, metrics |-> ms, oov |-> oov,
     caller_texts |-> texts]

\* The metric loop on the reconciled dictionary d2.
Looped(tps, d2, corpus, texts, keyed_vectors, ms, window_size, suffix, cores, oov) ==
    Returned(RunMetrics([scores |-> <<>>, calls |-> <<>>, log |-> <<<<"OOV", oov>>>>],
                        ms,
                        [topics |-> tps, dictionary |-> d2, corpus |-> corpus,
                         texts |-> texts, keyed_vectors |-> keyed_vectors,
                         window_size |-> window_size, suffix |-> suffix,
                         cores |-> cores, oov |-> oov]),
             tps, d2, ms, oov, texts)

\* The call past its guard: the metrics ms, the pseudo-documents oov.
Scored(tps, d, corpus, texts, keyed_vectors, ms, window_size, suffix, cores, oov) ==
    Looped(tps, Reconcile(d, oov), corpus, texts, keyed_vectors, ms, window_size,
           suffix, cores, oov)

\* The whole call: what it returns, the dictionary it leaves, the scorer
\* invocations it made and what it logged.
eval_coherence(tps, d, corpus, texts, keyed_vectors, metrics, window_size, suffix, cores) ==
    IF NoInput(corpus, texts, keyed_vectors)
      THEN ConfigError(tps, d, texts)
      ELSE Scored(tps, d, corpus, texts, keyed_vectors,
                  ResolveMetrics(corpus, texts, keyed_vectors, metrics).val,
                  window_size, suffix, cores, OovDocs(tps, d.token2id))

(***************************************************************************)
(* Numbers.  A float is NaN or the exact real c * sqrt(f), c a rational in *)
(* lowest terms <<num, den>> and f a square-free integer (f = 1 when       *)
(* c = 0).  The sums of the model add numbers of one f.                    *)
(***************************************************************************)
Abs(x) == IF x < 0 THEN -x ELSE x

RECURSIVE Gcd(_, _)
Gcd(x, y) == IF y = 0 THEN x ELSE Gcd(y, x % y)

Rat(n, d) ==
    LET g == Gcd(Abs(n), Abs(d))
        s == IF d < 0 THEN -1 ELSE 1
    IN  <<(s * n) \div g, (s * d) \div g>>

RAdd(p, q) == Rat(p[1] * q[2] + q[1] * p[2], p[2] * q[2])
RMul(p, q) == Rat(p[1] * q[1], p[2] * q[2])
RDiv(p, q) == Rat(p[1] * q[2], p[2] * q[1])
RLe(p, q) == p[1] * q[2] <= q[1] * p[2]

\* The largest s with s * s dividing k, for k > 0.
SquarePart(k) == CHOOSE s \in 1..k :
                    /\ k % (s * s) = 0
                    /\ \A t \in (s + 1)..k : k % (t * t) # 0

NaNum == [nan |-> TRUE]
Num(c, f) == IF c[1] = 0 THEN [nan |-> FALSE, c |-> <<0, 1>>, f |-> 1]
             ELSE LET s == SquarePart(f)
                  IN  [nan |-> FALSE, c |-> RMul(c, <<s, 1>>), f |-> f \div (s * s)]
Zero == Num(<<0, 1>>, 1)
OfInt(n) == Num(<<n, 1>>, 1)
OfRat(q) == Num(q, 1)

IsZero(x) == ~x.nan /\ x.c[1] = 0

NAdd(x, y) ==
    IF x.nan \/ y.nan THEN NaNum
    ELSE IF IsZero(x) THEN y
    ELSE IF IsZero(y) THEN x
    ELSE Num(RAdd(x.c, y.c), x.f)

NMul(x, y) ==
    IF x.nan \/ y.nan THEN NaNum ELSE Num(RMul(x.c, y.c), x.f * y.f)

\* x / y in floating point: 0/0 and anything with a NaN is NaN.  A non-zero x over
\* zero (an infinity) does not arise: every dot product with a zero vector is zero.
NDiv(x, y) ==
    IF x.nan \/ y.nan \/ IsZero(y) THEN NaNum
    ELSE Num(RDiv(x.c, RMul(y.c, <<y.f, 1>>)), x.f * y.f)

\* x <= y as the comparison of floats decides it: false when either is NaN.
NLe(x, y) ==
    /\ ~x.nan /\ ~y.nan
    /\ IF IsZero(x) THEN y.c[1] >= 0
       ELSE IF IsZero(y) THEN x.c[1] <= 0
       ELSE RLe(x.c, y.c)

RECURSIVE NSum(_)
NSum(xs) == IF xs = <<>> THEN Zero ELSE NAdd(Head(xs), NSum(Tail(xs)))

\* numpy's mean of a 1-d array: NaN for the empty array.
NMean(xs) == IF xs = <<>> THEN NaNum ELSE NDiv(NSum(xs), OfInt(Len(xs)))

\* The square root of a rational number sq >= 0 (a number of f = 1).
Sqrt(sq) ==
    IF sq.nan THEN NaNum
    ELSE IF IsZero(sq) THEN Zero
    ELSE Num(<<1, sq.c[2]>>, sq.c[1] * sq.c[2])

\* np.linalg.norm of a vector of numbers of f = 1.
Norm(v) == Sqrt(NSum([i \in 1..Len(v) |-> NMul(v[i], v[i])]))

Dot(u, v) == NSum([i \in 1..Len(u) |-> NMul(u[i], v[i])])

(***************************************************************************)
(* cosine_similarities, pairwise_similarity, mean_similarity               *)
(***************************************************************************)
\* An embedding source is a function from its terms to vectors of integers; a
\* vector of the model is a sequence of numbers.
AsVector(v) == [i \in 1..Len(v) |-> OfInt(v[i])]

\* vectors = topic.map(vector).dropna(); vectors = vectors.apply(pd.Series).values
\* The rows of the terms the source has, in the topic's order: a 2-d array, or, when
\* no term is left, the values of an empty Series, a 1-d array of length 0.
Vectors(topic, kv) ==
    LET present == SelectSeq(topic, LAMBDA x : x \in DOMAIN kv)
    IN  IF present = <<>>
          THEN [ndim |-> 1, rows |-> <<>>]
          ELSE [ndim |-> 2, rows |-> [i \in 1..Len(present) |-> AsVector(kv[present[i]])]]

\* cosine_similarities(vector_1, vectors_all); np.linalg.norm(vectors_all, axis=1)
\* raises AxisError on a 1-d array.
cosine_similarities(vector_1, vectors_all) ==
    IF vectors_all.ndim # 2 THEN [raised |-> TRUE, error |-> "AxisError"]
    ELSE LET norm      == Norm(vector_1)
             rows      == vectors_all.rows
             all_norms == [i \in 1..Len(rows) |-> Norm(rows[i])]
             dots      == [i \in 1..Len(rows) |-> Dot(rows[i], vector_1)]
         IN  [raised |-> FALSE,
              val |-> [i \in 1..Len(rows) |-> NDiv(dots[i], NMul(norm, all_norms[i]))]]

\* np.mean(m, axis=0) of a list of equally long rows: the column means.
ColumnMeans(m) ==
    [j \in 1..Len(m[1]) |-> NMean([i \in 1..Len(m) |-> m[i][j]])]

\* np.asarray([cosine_similarities(vec, vectors) for vec in vectors]).mean(axis=0):
\* a 1-d array, or the scalar NaN (ndim 0) when there is no row.
PairwiseSims(vectors) ==
    LET rows == vectors.rows
    IN  IF rows = <<>> THEN [ndim |-> 0, val |-> NaNum]
        ELSE [ndim |-> 1,
              val |-> ColumnMeans([i \in 1..Len(rows) |->
                                      cosine_similarities(rows[i], vectors).val])]

\* A mutant: the padding is done with ones.
Padded_ones(sims, n) == sims \o [i \in 1..n |-> OfInt(1)]

\* np.append(sims, np.zeros(missing))
Padded(sims, n) == sims \o [i \in 1..n |-> Zero]

\* The rest of pairwise_similarity's loop body, from sims: the padding unless
\* ignore_oov, and the mean.  len() of a numpy scalar raises TypeError.
PairwiseOfSims(topic, sims, ignore_oov) ==
    IF ignore_oov
      THEN [raised |-> FALSE,
            val |-> IF sims.ndim = 0 THEN sims.val ELSE NMean(sims.val)]
    ELSE IF sims.ndim = 0
      THEN [raised |-> TRUE, error |-> "TypeError"]
    ELSE LET missing == Len(topic) - Len(sims.val)
         IN  [raised |-> FALSE,
              val |-> NMean(IF missing > 0 THEN Padded(sims.val, missing)
                                           ELSE sims.val)]

\* The body of pairwise_similarity's loop for one source: the similarity, or the
\* error raised.
PairwiseOne(topic, kv, ignore_oov) ==
    PairwiseOfSims(topic, PairwiseSims(Vectors(topic, kv)), ignore_oov)

\* np.mean(vectors, axis=0): the column means, the scalar NaN for the empty 1-d array.
MeanVector(vectors) ==
    IF vectors.ndim = 1 THEN <<NaNum>> ELSE ColumnMeans(vectors.rows)

\* .mean() of the similarities, or the error cosine_similarities raised.
MeanOf(cs) == IF cs.raised THEN cs ELSE [raised |-> FALSE, val |-> NMean(cs.val)]

\* The body of mean_similarity's loop for one source.
MeanOfVectors(vectors) == MeanOf(cosine_similarities(MeanVector(vectors), vectors))

MeanOne(topic, kv) == MeanOfVectors(Vectors(topic, kv))

\* pairwise_similarity: the loop over kvs.items(), a sequence of <<name, source>>,
\* from the similarities acc collected so far: the Series of the similarities by
\* source name, or the first error raised.
RECURSIVE PairwiseLoop(_, _, _, _)
PairwiseStep(topic, kvs, ignore_oov, acc, r) ==
    IF r.raised THEN r
    ELSE PairwiseLoop(topic, Tail(kvs), ignore_oov, Append(acc, <<Head(kvs)[1], r.val>>))

PairwiseLoop(topic, kvs, ignore_oov, acc) ==
    IF kvs = <<>> THEN [raised |-> FALSE, val |-> acc]
    ELSE PairwiseStep(topic, kvs, ignore_oov, acc,
                      PairwiseOne(topic, Head(kvs)[2], ignore_oov))

pairwise_similarity(topic, kvs, ignore_oov) == PairwiseLoop(topic, kvs, ignore_oov, <<>>)

\* mean_similarity: the same loop.
RECURSIVE MeanLoop(_, _, _)
MeanStep(topic, kvs, acc, r) ==
    IF r.raised THEN r
    ELSE MeanLoop(topic, Tail(kvs), Append(acc, <<Head(kvs)[1], r.val>>))

MeanLoop(topic, kvs, acc) ==
    IF kvs = <<>> THEN [raised |-> FALSE, val |-> acc]
    ELSE MeanStep(topic, kvs, acc, MeanOne(topic, Head(kvs)[2]))

mean_similarity(topic, kvs) == MeanLoop(topic, kvs, <<>>)

(***************************************************************************)
(* The inputs of the model.                                                *)
(***************************************************************************)
\* Topics: ordered sequences of terms, all of one length.
TopicPool == {<<"a", "b">>, <<"b", "xyz">>}

SeqsUpTo(S, n) == UNION {[1..k -> S] : k \in 1..n}

TopicCollections == SeqsUpTo(TopicPool, MaxTopics)

\* Dictionaries as loaded: ids in the order the tokens were first seen.
InitialDicts == {DictOf(s) : s \in {<<>>, <<"b">>, <<"b", "a">>, <<"a", "b", "xyz">>}}

\* Text collections (token lists), corpora (bags of (id, count) pairs), embeddings.
TextChoices == {None, Some(<<>>), Some(<<<<"a", "b">>>>)}
CorpusChoices == {None, Some(<<>>), Some(<<<<<<0, 1>>>>>>)}
KvChoices == {None, Some("w2v")}

Metrics == {"u_mass", "c_v", "c_npmi", "c_uci", "c_w2v"}
ExplicitMetrics == {Some(<<>>), Some(<<"c_uci">>), Some(<<"c_v", "u_mass">>)}

\* (suffix, window_size) as the callers pair them.
ConfigChoices == {<<"", None>>, <<"_wikt_w20", Some(20)>>}

\* The calls of the model, <<corpus, texts, keyed_vectors, metrics, suffix, window>>:
\* every combination of inputs with the default metrics, and explicit metric lists
\* with texts alone and with all three inputs.
CallChoices ==
    {<<c, t, k, None, "", None>> :
        c \in CorpusChoices, t \in TextChoices, k \in KvChoices}
    \cup
    {<<i[1], i[2], i[3], m, cfg[1], cfg[2]>> :
        i \in {<<None, Some(<<<<"a", "b">>>>), None>>,
               <<Some(<<<<<<0, 1>>>>>>), Some(<<<<"a", "b">>>>), Some("w2v")>>},
        m \in ExplicitMetrics, cfg \in ConfigChoices}

NoCall == [called |-> FALSE]

(***************************************************************************)
(* Calls of eval_coherence on the shared dictionary.                       *)
(***************************************************************************)
\* tl = TopicsLoader(...); topics = tl.topics
LoadTopics ==
    /\ \E t \in TopicCollections : topics' = t
    /\ last' = NoCall
    /\ UNCHANGED <<dictionary, reconciled>>

\* One invocation of eval_coherence with the run's topics and dictionary.
Evaluated(c, r) ==
    /\ dictionary' = r.dictionary
    /\ reconciled' = reconciled \o r.oov
    /\ last' = [called |-> TRUE, corpus |-> c[1], texts |-> c[2],
                keyed_vectors |-> c[3], metrics |-> c[4], suffix |-> c[5],
                window_size |-> c[6], topics |-> topics,
                before |-> dictionary, reconciled |-> reconciled, res |-> r]
    /\ UNCHANGED topics

EvalCoherence ==
    \E c \in CallChoices :
        Evaluated(c, eval_coherence(topics, dictionary, c[1], c[2], c[3], c[4], c[6],
                                    c[5], 1))

\* The similarity scorers at rest.
SimIdle ==
    /\ simTopic = <<>>
    /\ simKvs = <<>>
    /\ msRes = NoCall /\ psRes = NoCall /\ ps2Res = NoCall

\* main not running, and no file written.
MainIdle ==
    /\ pc = "idle"
    /\ args = NoCall
    /\ tlDictionary = DictOf(<<>>)
    /\ emb = <<>>
    /\ dfs = <<>>
    /\ dfSims = NoCall
    /\ files = {}
    /\ clock = 0
    /\ output = NoCall

Init ==
    /\ topics \in TopicCollections
    /\ dictionary \in InitialDicts
    /\ reconciled = <<>>
    /\ last = NoCall
    /\ SimIdle
    /\ MainIdle

Next ==
    \/ LoadTopics /\ UNCHANGED <<simVars, mainVars>>
    \/ EvalCoherence /\ UNCHANGED <<simVars, mainVars>>

vars == <<evalVars, simVars, mainVars>>

Spec == Init /\ [][Next]_vars

(***************************************************************************)
(* Calls of the similarity scorers.                                        *)
(***************************************************************************)
SimTerms == {"a", "b", "c"}
SimTopics == {<<"a", "b", "c">>, <<"b", "a">>}
Vecs == {<<1, 0>>, <<0, 1>>, <<-1, 0>>, <<0, 0>>}

\* Every source over the terms: each term is missing or has one of the vectors.
Sources == UNION {[D -> Vecs] : D \in SUBSET SimTerms}

\* A second source: one with no term of the topics, one with all of them.
OtherSources == {[t \in {} |-> <<0, 0>>],
                 [t \in SimTerms |-> IF t = "a" THEN <<0, 1>> ELSE <<1, 0>>]}

KvsChoices ==
    {<<<<"w2v", w>>>> : w \in Sources}
    \cup {<<<<"w2v", w>>, <<"ftx", f>>>> : w \in Sources, f \in OtherSources}
    \cup {<<<<"ftx", f>>, <<"w2v", w>>>> : w \in Sources, f \in OtherSources}

Called(r) == [called |-> TRUE, res |-> r]

MeanSimilarity ==
    /\ msRes = NoCall
    /\ msRes' = Called(mean_similarity(simTopic, simKvs))
    /\ UNCHANGED <<simTopic, simKvs, psRes, ps2Res>>

PairwiseSimilarity(ignore_oov) ==
    /\ IF ignore_oov
         THEN psRes = NoCall /\ psRes' = Called(pairwise_similarity(simTopic, simKvs, TRUE))
                /\ UNCHANGED ps2Res
         ELSE ps2Res = NoCall /\ ps2Res' = Called(pairwise_similarity(simTopic, simKvs, FALSE))
                /\ UNCHANGED psRes
    /\ UNCHANGED <<simTopic, simKvs, msRes>>

EvalIdle ==
    /\ topics = <<>>
    /\ dictionary = DictOf(<<>>)
    /\ reconciled = <<>>
    /\ last = NoCall

InitSim ==
    /\ simTopic \in SimTopics
    /\ simKvs \in KvsChoices
    /\ msRes = NoCall /\ psRes = NoCall /\ ps2Res = NoCall
    /\ EvalIdle
    /\ MainIdle

NextSim ==
    \/ MeanSimilarity /\ UNCHANGED <<evalVars, mainVars>>
    \/ \E ignore_oov \in BOOLEAN :
          PairwiseSimilarity(ignore_oov) /\ UNCHANGED <<evalVars, mainVars>>

SpecSim == InitSim /\ [][NextSim]_vars

(***************************************************************************)
(* Properties of eval_coherence.                                           *)
(***************************************************************************)
NoneSupplied(c) == ~c.corpus.some /\ ~c.texts.some /\ ~c.keyed_vectors.some

TermsOf(tps) == UNION {Range(tps[k]) : k \in 1..Len(tps)}

Injective(f) == \A x, y \in DOMAIN f : f[x] = f[y] => x = y

\* The metrics the scorer was invoked with, in the order of the invocations.
MetricsRun(r) == [i \in 1..Len(r.calls) |-> r.calls[i].coherence]

\* C1: a call with none of corpus, texts and keyed_vectors supplied logs the
\* configuration error and nothing else, never invokes the scorer, returns no table
\* and leaves the dictionary as it was.
C1_NoInputNoComputation ==
    (last.called /\ NoneSupplied(last)) =>
        /\ Len(last.res.log) = 1
        /\ Len(last.res.log[1]) = 1
        /\ last.res.log[1][1] = "provide corpus, texts and/or keyed_vectors"
        /\ last.res.calls = <<>>
        /\ last.res.ret.kind = "none"
        /\ last.res.dictionary = last.before
        /\ dictionary = last.before

\* C1's case: such a call on a dictionary that lacks a term of the topics.
C1_Witness ==
    /\ last.called /\ NoneSupplied(last)
    /\ TermsOf(last.topics) \ DOMAIN last.before.token2id # {}

\* C2: after the reconciliation every term of the topics is in token2id, no term is
\* registered twice, no term the dictionary knew is reported as OOV, and a second
\* reconciliation of the same topics reports no OOV term and adds nothing.
C2_Reconciled ==
    (last.called /\ last.res.ret.kind # "none") =>
        LET oov == last.res.oov
            r2  == eval_coherence(last.topics, dictionary, last.corpus, last.texts,
                                  last.keyed_vectors, last.metrics, last.window_size,
                                  last.suffix, 1)
        IN  /\ TermsOf(last.topics) \subseteq DOMAIN dictionary.token2id
            /\ \A i, j \in 1..Len(oov) : oov[i] = oov[j] => i = j
            /\ Injective(dictionary.token2id)
            /\ \A i \in 1..Len(oov) : oov[i][1] \notin DOMAIN last.before.token2id
            /\ r2.oov = <<>>
            /\ r2.dictionary = dictionary

\* C2's case: a reconciliation that added two terms to a dictionary that knew another.
C2_Witness ==
    /\ last.called /\ last.res.ret.kind # "none"
    /\ Len(last.res.oov) = 2
    /\ TermsOf(last.topics) \cap DOMAIN last.before.token2id # {}

\* C3: over an invocation the dictionary only grows: every mapping it had is kept
\* with its id, no id is used twice, the i-th OOV term (in sorted order) gets the
\* i-th next free id, and the size grows by the number of distinct OOV terms.
C3_DictionaryGrows ==
    last.called =>
        LET b   == last.before.token2id
            a   == dictionary.token2id
            oov == last.res.oov
            n   == Cardinality(DOMAIN b)
        IN  /\ \A t \in DOMAIN b : t \in DOMAIN a /\ a[t] = b[t]
            /\ Injective(a)
            /\ \A i \in 1..Len(oov) : a[oov[i][1]] = n + i - 1
            /\ Cardinality(DOMAIN a) = n + Len(oov)
            /\ Cardinality({oov[i][1] : i \in 1..Len(oov)}) = Len(oov)
            /\ {oov[i][1] : i \in 1..Len(oov)} = TermsOf(last.topics) \ DOMAIN b
               \/ last.res.ret.kind = "none"

\* C3's case: "xyz" alone is missing from a dictionary whose ids are not in sorted
\* order, and the vocabulary grows by exactly one.
C3_Witness ==
    /\ last.called
    /\ last.res.oov = <<<<"xyz">>>>
    /\ last.before.token2id = DictOf(<<"b", "a">>).token2id
    /\ Cardinality(DOMAIN dictionary.token2id) = 3
    /\ dictionary.token2id["xyz"] = 2

\* The union of the default families of the inputs that were supplied.
DefaultFamilies(c) ==
    (IF c.corpus.some THEN <<"u_mass">> ELSE <<>>)
    \o (IF c.texts.some THEN <<"c_v", "c_npmi", "c_uci">> ELSE <<>>)
    \o (IF c.keyed_vectors.some THEN <<"c_w2v">> ELSE <<>>)

\* C6: with metrics=None and at least one input supplied, the metrics run are the
\* union of the default families of the supplied inputs; with an explicit list
\* exactly that list is run.
C6_DefaultsAreUnion ==
    (last.called /\ ~NoneSupplied(last)) =>
        IF last.metrics.some
          THEN MetricsRun(last.res) = last.metrics.val
          ELSE MetricsRun(last.res) = DefaultFamilies(last)

C9_PseudoDocumentsPassed ==
    (last.called /\ last.reconciled \o last.res.oov # <<>>) =>
        /\ \A i \in 1..Len(last.res.calls) :
              last.res.calls[i].texts.some =>
                  last.res.calls[i].texts.val
                      = last.texts.val \o last.reconciled \o last.res.oov
        /\ last.res.caller_texts = last.texts

(***************************************************************************)
(* Properties of the similarity scorers.                                   *)
(***************************************************************************)
\* The terms of the topic the source has a vector for.
InVocab(tp, kv) == SelectSeq(tp, LAMBDA x : x \in DOMAIN kv)

\* The outcome r of a scorer reports NaN for every source without an in-vocabulary
\* term and a value under the name of every source.
ReportsNaN(r) ==
    (r.called /\ \E i \in 1..Len(simKvs) : InVocab(simTopic, simKvs[i][2]) = <<>>) =>
        /\ ~r.res.raised
        /\ Len(r.res.val) = Len(simKvs)
        /\ \A i \in 1..Len(simKvs) :
              /\ r.res.val[i][1] = simKvs[i][1]
              /\ InVocab(simTopic, simKvs[i][2]) = <<>> => r.res.val[i][2].nan

\* C5: for a source in which the topic has no in-vocabulary term, mean_similarity
\* and pairwise_similarity with either ignore_oov complete without an error and
\* report NaN for that source, and still report the other sources.
C5_ZeroInVocabIsNaN == ReportsNaN(msRes) /\ ReportsNaN(psRes) /\ ReportsNaN(ps2Res)

\* The source of the example: a -> [1, 0], b -> [0, 1], c missing.
ExampleSource == [t \in {"a", "b"} |-> IF t = "a" THEN <<1, 0>> ELSE <<0, 1>>]

NonZeroNorms(tp, kv) ==
    \A x \in Range(InVocab(tp, kv)) : \E j \in 1..Len(kv[x]) : kv[x][j] # 0

Digit(n) == <<"0", "1", "2", "3", "4", "5", "6", "7", "8", "9">>[n + 1]

\* str(n) of a natural number.
RECURSIVE IntStr(_)
IntStr(n) == IF n < 10 THEN <<Digit(n)>> ELSE IntStr(n \div 10) \o <<Digit(n % 10)>>

\* str.rstrip(chars): drops every trailing character that is in chars.
RECURSIVE rstrip(_, _)
rstrip(str, chars) ==
    IF str # <<>> /\ str[Len(str)] \in chars
      THEN rstrip(SubSeq(str, 1, Len(str) - 1), chars)
      ELSE str

\* if exists(file): file = file.rstrip('.csv') + '_' + str(time()).split('.')[0] + '.csv'
\* now is the integer part of time().
OutputFile(file, exists, now) ==
    IF exists
      THEN rstrip(file, {".", "c", "s", "v"}) \o <<"_">> \o IntStr(now) \o <<".", "c", "s", "v">>
      ELSE file

\* The path separator, and LDA_PATH of the constants module.
Sep == <<"/">>
LDA_PATH == <<"l", "d", "a">>

\* join(LDA_PATH, version, corpus_type, 'topics',
\*      f'{dataset}_{version}_{corpus_type}_topic-scores.csv')
BasePath(dataset, version, corpus_type) ==
    LDA_PATH \o Sep \o version \o Sep \o corpus_type \o Sep \o <<"t", "o", "p", "i", "c", "s">> \o Sep
    \o dataset \o <<"_">> \o version \o <<"_">> \o corpus_type \o <<"_", "t", "o", "p", "i", "c", "-", "s", "c", "o", "r", "e", "s", ".", "c", "s", "v">>

\* What the loaders give main: the topics, the texts and corpus of the topics' own
\* dataset, the wiki dictionary and texts, the embedding sources.
MainTopics == {<<<<"a", "b">>>>, <<<<"a", "b">>, <<"b", "xyz">>>>}
TlDictionary == DictOf(<<"a", "b", "xyz">>)
TlCorpus == Some(<<<<<<0, 1>>, <<1, 1>>>>>>)
TlTexts == Some(<<<<"a", "b">>>>)
WikiDict == DictOf(<<"b">>)
WikiTexts == Some(<<<<"b", "a">>>>)

FullSource == [t \in Terms |-> IF t = "a" THEN <<1, 0>> ELSE <<0, 1>>]
PartSource == [t \in {"a", "b"} |-> IF t = "a" THEN <<1, 0>> ELSE <<0, 1>>]
EmptySource == [t \in {} |-> <<0, 0>>]
EmbChoices == {<<<<"d2v", d>>, <<"w2v", PartSource>>, <<"ftx", FullSource>>>> :
                  d \in {EmptySource, FullSource}}

\* parse_args
ParsedArgs ==
    {[dataset |-> <<"n", "e", "w", "s">>, version |-> <<"n", "o", "u", "n">>,
      corpus_type |-> IF tfidf THEN <<"t", "f", "i", "d", "f">> ELSE <<"b", "o", "w">>,
      use_coherence |-> method \in {"coherence", "both"},
      use_w2v |-> method \in {"w2v", "both"},
      cores |-> 4, called |-> TRUE] :
        method \in {"coherence", "w2v", "both"}, tfidf \in BOOLEAN}

\* parse_args, TopicsLoader, load('dict', 'dewiki', 'unfiltered'); dfs = []
MainStart ==
    /\ pc = "idle"
    /\ args' \in ParsedArgs
    /\ topics' \in MainTopics
    /\ tlDictionary' = TlDictionary
    /\ dictionary' = WikiDict
    /\ dfs' = <<>>
    /\ dfSims' = None
    /\ output' = NoCall
    /\ pc' = IF args'.use_coherence THEN "own" ELSE "w2v"
    /\ UNCHANGED <<reconciled, last, emb, files, clock>>

\* df = eval_coherence(...); dfs.append(df), on the topics' own dictionary and on
\* the wiki dictionary.
OwnDone(r) ==
    /\ tlDictionary' = r.dictionary
    /\ dfs' = Append(dfs, r.ret)

WikiDone(r) ==
    /\ dictionary' = r.dictionary
    /\ dfs' = Append(dfs, r.ret)

\* The run on the topics' own corpus and texts.
MainOwn ==
    /\ pc = "own"
    /\ OwnDone(eval_coherence(topics, tlDictionary, TlCorpus, TlTexts, None, None,
                               None, "", args.cores))
    /\ pc' = "wikt"
    /\ UNCHANGED <<evalVars, args, emb, dfSims, files, clock, output>>

\* The run on the wiki texts and dictionary.
MainWikt ==
    /\ pc = "wikt"
    /\ WikiDone(eval_coherence(topics, dictionary, None, WikiTexts, None, None,
                                None, "_wikt", args.cores))
    /\ pc' = "wikt_w20"
    /\ UNCHANGED <<topics, reconciled, last, args, tlDictionary, emb, dfSims, files,
                   clock, output>>

\* The run of c_uci with a window of 20 on the wiki texts and dictionary.
MainWiktW20 ==
    /\ pc = "wikt_w20"
    /\ WikiDone(eval_coherence(topics, dictionary, None, WikiTexts, None,
                                Some(<<"c_uci">>), Some(20), "_wikt_w20", args.cores))
    /\ pc' = IF args.use_w2v THEN "w2v" ELSE "write"
    /\ UNCHANGED <<topics, reconciled, last, args, tlDictionary, emb, dfSims, files,
                   clock, output>>

\* d2v, w2v, ftx = load(...); the run with the word2vec vectors.
MainW2v ==
    /\ pc = "w2v"
    /\ emb' \in EmbChoices
    /\ WikiDone(eval_coherence(topics, dictionary, None, None, Some("w2v"), None,
                                None, "_w2v", args.cores))
    /\ pc' = "ftx"
    /\ UNCHANGED <<topics, reconciled, last, args, tlDictionary, dfSims, files, clock,
                   output>>

\* The run with the fastText vectors.
MainFtx ==
    /\ pc = "ftx"
    /\ WikiDone(eval_coherence(topics, dictionary, None, None, Some("ftx"), None,
                                None, "_ftx", args.cores))
    /\ pc' = "sims"
    /\ UNCHANGED <<topics, reconciled, last, args, tlDictionary, emb, dfSims, files,
                   clock, output>>

\* topics.apply(lambda x: f(x, kvs), axis=1) for the three scorers, and their
\* concatenation under the three column groups; an error of a scorer ends main.
SimColumns(group, rows) ==
    IF rows = <<>> THEN <<>>
    ELSE [i \in 1..Len(rows[1].val) |-> <<group, rows[1].val[i][1]>>]

ConcatSims(m, p, p2) ==
    IF \E k \in 1..Len(m) : m[k].raised \/ p[k].raised \/ p2[k].raised
      THEN [raised |-> TRUE]
      ELSE [raised |-> FALSE,
            columns |-> SimColumns("mean_similarity", m)
                        \o SimColumns("pairwise_similarity_ignore_oov", p)
                        \o SimColumns("pairwise_similarity", p2),
            cells |-> <<[k \in 1..Len(m) |-> m[k].val],
                        [k \in 1..Len(m) |-> p[k].val],
                        [k \in 1..Len(m) |-> p2[k].val]>>]

\* topics.apply(lambda x: mean_similarity(x, kvs), axis=1): one outcome per topic.
MeanRows(tps, kvs) ==
    [k \in 1..Len(tps) |-> mean_similarity(tps[k], kvs)] \o <<>>

\* topics.apply(lambda x: pairwise_similarity(x, kvs, ignore_oov=...), axis=1)
PairwiseRows(tps, kvs, ignore_oov) ==
    [k \in 1..Len(tps) |-> pairwise_similarity(tps[k], kvs, ignore_oov)] \o <<>>

SimsDone(t) ==
    IF t.raised
      THEN pc' = "failed" /\ UNCHANGED dfSims
      ELSE pc' = "write" /\ dfSims' = Some(t)

MainSims ==
    /\ pc = "sims"
    /\ \E m \in {MeanRows(topics, emb)}, p \in {PairwiseRows(topics, emb, TRUE)},
          p2 \in {PairwiseRows(topics, emb, FALSE)} :
            SimsDone(ConcatSims(m, p, p2))
    /\ emb' = <<>>
    /\ UNCHANGED <<evalVars, args, tlDictionary, dfs, files, clock, output>>

\* The column names of the tables of dfs, in the order of pd.concat(dfs, axis=1).
RECURSIVE ConcatColumns(_)
ConcatColumns(tables) ==
    IF tables = <<>> THEN <<>>
    ELSE Head(tables).columns \o ConcatColumns(Tail(tables))

\* dfs.stack().apply(pd.Series).rename(columns={0: 'score', 1: 'stdev',
\* 2: 'support'}).unstack(), then the similarity columns: the columns of the
\* table that is written.
MergedColumns(tables, sims) ==
    LET cols == ConcatColumns(tables)
        part == <<"score", "stdev", "support">>
    IN  [i \in 1..(3 * Len(cols)) |-> <<part[((i - 1) \div Len(cols)) + 1],
                                         cols[((i - 1) % Len(cols)) + 1]>>]
        \o (IF sims.some
              THEN sims.val.columns
              ELSE <<>>)

\* The path is chosen and the table written: dfs.to_csv(file).
MainWrite ==
    /\ pc = "write"
    /\ LET base == BasePath(args.dataset, args.version, args.corpus_type)
           file == OutputFile(base, base \in files, clock)
       IN  /\ output' = [called |-> TRUE, base |-> base, base_existed |-> base \in files,
                         path |-> file, existed |-> file \in files, now |-> clock,
                         columns |-> MergedColumns(dfs, dfSims)]
           /\ files' = files \cup {file}
    /\ pc' = "done"
    /\ UNCHANGED <<evalVars, args, tlDictionary, emb, dfs, dfSims, clock>>

\* The process ends, by returning or by an uncaught error.
MainExit ==
    /\ pc \in {"done", "failed"}
    /\ pc' = "idle"
    /\ args' = NoCall
    /\ tlDictionary' = DictOf(<<>>)
    /\ dfs' = <<>>
    /\ dfSims' = NoCall
    /\ UNCHANGED <<evalVars, emb, files, clock, output>>

\* A second passes.
Tick ==
    /\ clock < MaxClock
    /\ clock' = clock + 1
    /\ UNCHANGED <<evalVars, pc, args, tlDictionary, emb, dfs, dfSims, files, output>>

InitMain ==
    /\ topics = <<>>
    /\ dictionary = DictOf(<<>>)
    /\ reconciled = <<>>
    /\ last = NoCall
    /\ SimIdle
    /\ MainIdle

NextMain ==
    \/ MainStart /\ UNCHANGED simVars
    \/ MainOwn /\ UNCHANGED simVars
    \/ MainWikt /\ UNCHANGED simVars
    \/ MainWiktW20 /\ UNCHANGED simVars
    \/ MainW2v /\ UNCHANGED simVars
    \/ MainFtx /\ UNCHANGED simVars
    \/ MainSims /\ UNCHANGED simVars
    \/ MainWrite /\ UNCHANGED simVars
    \/ MainExit /\ UNCHANGED simVars
    \/ Tick /\ UNCHANGED simVars

SpecMain == InitMain /\ [][NextMain]_vars

(***************************************************************************)
(* Properties of main.                                                     *)
(***************************************************************************)
\* The timestamp-derived suffix of a path: '_', the digits of a second, '.csv'.
HasTimestampSuffix(path) ==
    \E now \in 0..MaxClock :
        /\ Len(path) > Len(<<"_">> \o IntStr(now) \o <<".", "c", "s", "v">>)
        /\ SubSeq(path, Len(path) - Len(IntStr(now)) - 4, Len(path))
              = <<"_">> \o IntStr(now) \o <<".", "c", "s", "v">>

\* C4: every run of main writes its table to a path at which no file exists at the
\* moment of writing, and a run that finds a file at the base path of its
\* configuration writes to a path that carries a timestamp-derived suffix.
C4_NeverOverwrites ==
    output.called =>
        /\ ~output.existed
        /\ output.base_existed =>
              (output.path # output.base /\ HasTimestampSuffix(output.path))

\* The column names of the partial tables of the run, pairwise distinct.
Distinct(cols) == \A i, j \in 1..Len(cols) : cols[i] = cols[j] => i = j

\* C8: in a run of main, whatever the method, the column names metric + suffix of
\* all the eval_coherence invocations made so far are pairwise distinct, and so
\* are the columns of the table that is written.
C8_ColumnsDistinct ==
    /\ (\A k \in 1..Len(dfs) : dfs[k].kind = "table") => Distinct(ConcatColumns(dfs))
    /\ (pc = "done" /\ output.called) => Distinct(output.columns)

\* C8's case: a run with method both has made its five invocations, which gave
\* ten columns, and has written its table.
C8_Witness ==
    /\ pc = "done"
    /\ args.use_coherence /\ args.use_w2v
    /\ Len(dfs) = 5
    /\ \A k \in 1..Len(dfs) : dfs[k].kind = "table"
    /\ Len(ConcatColumns(dfs)) = 10
    /\ Len(output.columns) = 39

====
